---- MODULE Spec2Model ----
(***************************************************************************)
(* Model of OS_Exec (src/analysisd/alerts/exec.c): the active-response     *)
(* dispatch of analysisd.  C strings are sequences of one-character        *)
(* strings.  The observable outcome of one call (the branch entered, the   *)
(* OS_SendUnix calls made, the merror calls made) is recorded in "out".    *)
(***************************************************************************)
EXTENDS Integers, Sequences, FiniteSets, TLC

VARIABLES Config, lf, ar, out, calls, execq_sent, arq_sent, errs, alive

vars == <<Config, lf, ar, out, calls, execq_sent, arq_sent, errs, alive>>

(* ---------------- bounds ---------------- *)

\* number of OS_Exec calls explored
MaxCalls == 3

\* scaled-down value of the program's maximum string length
MaxStr == 14

(* ---------------- program constants ---------------- *)

OS_MAXSTR == MaxStr

\* values of ar->location; the value is printed with %c in the forward message
AS_ONLY == "S"

REMOTE_AGENT == "R"

SPECIFIC_AGENT == "P"

(* ---------------- input domains ---------------- *)

\* lf->srcip: plain, addr:port, a port-looking address, ::-prefixed, trailing colon
SrcIps == { <<"1">>, <<"1", ":", "4">>, <<"4">>, <<":", ":", "1">>, <<"1", ":">> }

\* lf->location: from this host, or relayed ("agent>file")
Locations == { <<"a">>, <<"a", ">", "b">> }

Users == { <<>>, <<"u">> }

LongName == <<"n", "n", "n", "n", "n", "n", "n", "n", "n", "n", "n", "n">>

Names == { <<"n">>, LongName }

AgentIds == { <<"7">> }

ArLocations == { AS_ONLY, REMOTE_AGENT, SPECIFIC_AGENT }

Events == [srcip : SrcIps, location : Locations, user : Users]

Rules == [name : Names, location : ArLocations, agent_id : AgentIds]

\* Config.ar_ignore: NULL (isnull) or a NULL-terminated array of strings
IgnoreLists == { <<>>, << <<"1">> >>, << <<"4">> >>, << <<"1", ":", "4">> >>,
                 << <<"4">>, <<"1", ":", "4">> >> }

Configs == { [ar_ignore_null |-> TRUE, ar_ignore |-> <<>>, local_ar |-> l, remote_ar |-> r] :
               l \in BOOLEAN, r \in BOOLEAN }
           \cup
           { [ar_ignore_null |-> FALSE, ar_ignore |-> ig, local_ar |-> l, remote_ar |-> r] :
               ig \in IgnoreLists, l \in BOOLEAN, r \in BOOLEAN }

(* ---------------- C library functions ---------------- *)

\* index(s, c): position of the first c in s, 0 for NULL
RECURSIVE index_from(_, _, _)
index_from(s, c, i) ==
    IF i > Len(s) THEN 0
    ELSE IF s[i] = c THEN i
    ELSE index_from(s, c, i + 1)

index(s, c) == index_from(s, c, 1)

\* rindex(s, c): position of the last c in s, 0 for NULL
RECURSIVE rindex_from(_, _, _)
rindex_from(s, c, i) ==
    IF i < 1 THEN 0
    ELSE IF s[i] = c THEN i
    ELSE rindex_from(s, c, i - 1)

rindex(s, c) == rindex_from(s, c, Len(s))

\* strcmp(a, b): 0 when equal, nonzero at the first difference
RECURSIVE strcmp_from(_, _, _)
strcmp_from(a, b, i) ==
    IF i > Len(a) /\ i > Len(b) THEN 0
    ELSE IF i > Len(a) THEN -1
    ELSE IF i > Len(b) THEN 1
    ELSE IF a[i] # b[i] THEN 1
    ELSE strcmp_from(a, b, i + 1)

strcmp(a, b) == strcmp_from(a, b, 1)

\* the conversions "%s %s ... %s": the arguments, one space between them
RECURSIVE Format(_)
Format(fields) ==
    IF Len(fields) = 0 THEN <<>>
    ELSE IF Len(fields) = 1 THEN fields[1]
    ELSE fields[1] \o <<" ">> \o Format(Tail(fields))

\* sprintf: no size limit (used only as the faulty variant of snprintf)
snprintf_unbounded(size, fields) == Format(fields)

\* snprintf(buf, size, ...): at most size-1 characters, then the NUL
snprintf(size, fields) ==
    LET full == Format(fields)
    IN  IF Len(full) < size THEN full ELSE SubSeq(full, 1, size - 1)

(* ---------------- OS_Exec, piece by piece ---------------- *)

\* faulty variant: splits at the first colon
CleanIP_first(srcip) ==
    LET p == index(srcip, ":")
    IN  IF p # 0 THEN SubSeq(srcip, p + 1, Len(srcip)) ELSE srcip

\* "Cleaning the IP": ip = rindex(srcip, ':'); if(ip) ip++; else ip = srcip
CleanIP(srcip) ==
    LET p == rindex(srcip, ":")
    IN  IF p # 0 THEN SubSeq(srcip, p + 1, Len(srcip)) ELSE srcip

\* the walk of the ignore list: while(*ar_ignore) { if(strcmp(..) == 0) return; ar_ignore++ }
RECURSIVE ar_ignore_walk(_, _, _)
ar_ignore_walk(list, i, srcip) ==
    IF i > Len(list) THEN FALSE
    ELSE IF strcmp(list[i], srcip) = 0 THEN TRUE
    ELSE ar_ignore_walk(list, i + 1, srcip)

\* faulty variant: only the first entry of the list is compared
Ignored_first(cfg, srcip) ==
    IF cfg.ar_ignore_null THEN FALSE
    ELSE Len(cfg.ar_ignore) > 0 /\ strcmp(cfg.ar_ignore[1], srcip) = 0

\* faulty variant: the cleaned ip is compared, not lf->srcip
Ignored_ip(cfg, srcip) ==
    IF cfg.ar_ignore_null THEN FALSE
    ELSE ar_ignore_walk(cfg.ar_ignore, 1, CleanIP(srcip))

\* if(Config.ar_ignore) { walk }
Ignored(cfg, srcip) ==
    IF cfg.ar_ignore_null THEN FALSE
    ELSE ar_ignore_walk(cfg.ar_ignore, 1, srcip)

\* faulty variant: a REMOTE_AGENT rule is never run on the server
IsLocal_as_only(r, e) == r.location = AS_ONLY

\* the condition of the first branch
IsLocal(r, e) ==
    \/ r.location = AS_ONLY
    \/ (r.location = REMOTE_AGENT /\ index(e.location, ">") = 0)

\* faulty variant: an empty user is left out of the message
LocalMsg_skip(r, e, ip) ==
    IF Len(e.user) = 0 THEN snprintf(OS_MAXSTR, <<r.name, ip>>)
    ELSE snprintf(OS_MAXSTR, <<r.name, e.user, ip>>)

\* snprintf(exec_msg, OS_MAXSTR, "%s %s %s", ar->name, lf->user, ip)
LocalMsg(r, e, ip) == snprintf(OS_MAXSTR, <<r.name, e.user, ip>>)

\* snprintf(exec_msg, OS_MAXSTR, "%s %c %s %s %s %s", ...)
ForwardMsg(r, e, ip) ==
    snprintf(OS_MAXSTR, <<e.location, <<r.location>>, r.agent_id, r.name, e.user, ip>>)

\* a return with nothing sent
NoSend(path, ip) ==
    [ip |-> ip, path |-> path, disp |-> "Suppressed", sent |-> <<>>, nerr |-> 0, exit |-> FALSE]

\* faulty variant: the send is repeated once when it fails
SendUnix_retry(q, msg, ok, path, ip) ==
    [ip |-> ip, path |-> path,
     disp |-> IF ok THEN (IF q = "execq" THEN "SentLocal" ELSE "SentForward")
              ELSE (IF q = "execq" THEN "LocalQueueFailure" ELSE "ForwardQueueFailure"),
     sent |-> IF ok THEN << [q |-> q, msg |-> msg] >>
              ELSE << [q |-> q, msg |-> msg], [q |-> q, msg |-> msg] >>,
     nerr |-> IF ok THEN 0 ELSE 1,
     exit |-> FALSE]

\* faulty variant: a failed send ends the process (ErrorExit for merror)
SendUnix_fatal(q, msg, ok, path, ip) ==
    [ip |-> ip, path |-> path,
     disp |-> IF ok THEN (IF q = "execq" THEN "SentLocal" ELSE "SentForward")
              ELSE (IF q = "execq" THEN "LocalQueueFailure" ELSE "ForwardQueueFailure"),
     sent |-> << [q |-> q, msg |-> msg] >>,
     nerr |-> IF ok THEN 0 ELSE 1,
     exit |-> ~ok]

\* if(OS_SendUnix(q, exec_msg, 0) < 0) merror(...): one send, one log line on failure
SendUnix(q, msg, ok, path, ip) ==
    [ip |-> ip, path |-> path,
     disp |-> IF ok THEN (IF q = "execq" THEN "SentLocal" ELSE "SentForward")
              ELSE (IF q = "execq" THEN "LocalQueueFailure" ELSE "ForwardQueueFailure"),
     sent |-> << [q |-> q, msg |-> msg] >>,
     nerr |-> IF ok THEN 0 ELSE 1,
     exit |-> FALSE]

\* faulty variant: with local responses disabled the response is handed to the forwarder
LocalPath_fallthrough(cfg, r, e, ip, ok) ==
    IF ~cfg.local_ar
    THEN (IF cfg.remote_ar THEN SendUnix("arq", ForwardMsg(r, e, ip), ok, "local", ip)
          ELSE NoSend("local", ip))
    ELSE SendUnix("execq", LocalMsg(r, e, ip), ok, "local", ip)

\* the first branch: if(!Config.local_ar) return; snprintf; OS_SendUnix(*execq, ...)
LocalPath(cfg, r, e, ip, ok) ==
    IF ~cfg.local_ar THEN NoSend("local", ip)
    ELSE SendUnix("execq", LocalMsg(r, e, ip), ok, "local", ip)

\* the second branch: else if(Config.remote_ar) { snprintf; OS_SendUnix(*arq, ...) }
ForwardPath(cfg, r, e, ip, ok) ==
    IF cfg.remote_ar THEN SendUnix("arq", ForwardMsg(r, e, ip), ok, "forward", ip)
    ELSE NoSend("forward", ip)

\* the whole body of OS_Exec, as a function of what it reads
Run(cfg, e, r, ok) ==
    LET ip == CleanIP(e.srcip)
    IN  IF Ignored(cfg, e.srcip) THEN NoSend("ignored", ip)
        ELSE IF IsLocal(r, e) THEN LocalPath(cfg, r, e, ip, ok)
        ELSE ForwardPath(cfg, r, e, ip, ok)

\* number of sends of one call that went to queue q
RECURSIVE SendsTo(_, _)
SendsTo(sent, q) ==
    IF Len(sent) = 0 THEN 0
    ELSE (IF sent[1].q = q THEN 1 ELSE 0) + SendsTo(Tail(sent), q)

(* ---------------- state machine ---------------- *)

\* out: what the last call did (called), whether the call before it was made on
\* the same event and rule (again), and the outcome of the send offered to it (ok)

NoOut ==
    [called |-> FALSE, again |-> FALSE, ok |-> TRUE, ip |-> <<>>, path |-> "none",
     disp |-> "none", sent |-> <<>>]

Init ==
    /\ Config \in Configs
    /\ lf \in Events
    /\ ar \in Rules
    /\ out = NoOut
    /\ calls = 0
    /\ execq_sent = 0
    /\ arq_sent = 0
    /\ errs = 0
    /\ alive = TRUE

\* the alert pipeline hands the next (event, rule) pair to the dispatcher
Alert ==
    /\ alive
    /\ \E e \in Events, r \in Rules :
          /\ lf' = e
          /\ ar' = r
    /\ out' = NoOut
    /\ UNCHANGED <<Config, calls, execq_sent, arq_sent, errs, alive>>

\* faulty variant: the global list pointer is advanced instead of the local copy
OS_Exec_advance(ok) ==
    /\ alive
    /\ calls < MaxCalls
    /\ LET res == Run(Config, lf, ar, ok)
       IN  /\ out' = [called |-> TRUE, again |-> out.called, ok |-> ok, ip |-> res.ip,
                      path |-> res.path, disp |-> res.disp, sent |-> res.sent]
           /\ execq_sent' = execq_sent + SendsTo(res.sent, "execq")
           /\ arq_sent' = arq_sent + SendsTo(res.sent, "arq")
           /\ errs' = errs + res.nerr
           /\ alive' = ~res.exit
    /\ calls' = calls + 1
    /\ Config' = IF Len(Config.ar_ignore) > 0
                 THEN [Config EXCEPT !.ar_ignore = Tail(Config.ar_ignore)]
                 ELSE Config
    /\ UNCHANGED <<lf, ar>>

\* one call OS_Exec(&execq, &arq, lf, ar); ok is the outcome of OS_SendUnix
OS_Exec(ok) ==
    /\ alive
    /\ calls < MaxCalls
    /\ LET res == Run(Config, lf, ar, ok)
       IN  /\ out' = [called |-> TRUE, again |-> out.called, ok |-> ok, ip |-> res.ip,
                      path |-> res.path, disp |-> res.disp, sent |-> res.sent]
           /\ execq_sent' = execq_sent + SendsTo(res.sent, "execq")
           /\ arq_sent' = arq_sent + SendsTo(res.sent, "arq")
           /\ errs' = errs + res.nerr
           /\ alive' = ~res.exit
    /\ calls' = calls + 1
    /\ UNCHANGED <<Config, lf, ar>>

Dispatch == \E ok \in BOOLEAN : OS_Exec(ok)

Next == Alert \/ Dispatch

Spec == Init /\ [][Next]_vars

(* ---------------- vocabulary of the properties ---------------- *)

HasChar(s, c) == \E i \in 1..Len(s) : s[i] = c

InIgnoreList(cfg, s) ==
    /\ ~cfg.ar_ignore_null
    /\ \E i \in 1..Len(cfg.ar_ignore) : cfg.ar_ignore[i] = s

\* the classification as the specification words it
LocalExecution(r, e) ==
    \/ r.location = AS_ONLY
    \/ (r.location = REMOTE_AGENT /\ ~HasChar(e.location, ">"))

PathEnabled(cfg, r, e) ==
    IF LocalExecution(r, e) THEN cfg.local_ar ELSE cfg.remote_ar

\* the text after the last colon of a string that has one
AfterLastColon(s) ==
    LET k == CHOOSE k \in 1..Len(s) :
                 s[k] = ":" /\ \A j \in (k + 1)..Len(s) : s[j] # ":"
    IN  SubSeq(s, k + 1, Len(s))

FullLocal(r, e, ip) == r.name \o <<" ">> \o e.user \o <<" ">> \o ip

FullForward(r, e, ip) ==
    e.location \o <<" ">> \o <<r.location>> \o <<" ">> \o r.agent_id \o <<" ">>
        \o r.name \o <<" ">> \o e.user \o <<" ">> \o ip

FullMsg(q, r, e, ip) == IF q = "execq" THEN FullLocal(r, e, ip) ELSE FullForward(r, e, ip)

IsPrefix(m, full) == Len(m) <= Len(full) /\ m = SubSeq(full, 1, Len(m))

EndsWith(m, t) == Len(t) <= Len(m) /\ SubSeq(m, Len(m) - Len(t) + 1, Len(m)) = t

\* the last space-separated field of a message
LastField(m) ==
    IF HasChar(m, " ")
    THEN LET k == CHOOSE k \in 1..Len(m) :
                      m[k] = " " /\ \A j \in (k + 1)..Len(m) : m[j] # " "
         IN  SubSeq(m, k + 1, Len(m))
    ELSE m

ExpectedDisp(cfg, e, r, ok) ==
    IF InIgnoreList(cfg, e.srcip) THEN "Suppressed"
    ELSE IF ~PathEnabled(cfg, r, e) THEN "Suppressed"
    ELSE IF LocalExecution(r, e) THEN (IF ok THEN "SentLocal" ELSE "LocalQueueFailure")
    ELSE (IF ok THEN "SentForward" ELSE "ForwardQueueFailure")

CallStep == calls' = calls + 1

(* ---------------- C1 ---------------- *)

\* C1: a call on an event whose srcip equals an entry of the ignore list ends
\* Suppressed, makes no send and leaves both queues' send counts as they were,
\* whatever the rule, the location and the two flags are.
C1_IgnoredIsSuppressed ==
    [][(CallStep /\ InIgnoreList(Config, lf.srcip)) =>
          /\ out'.disp = "Suppressed"
          /\ out'.sent = <<>>
          /\ execq_sent' = execq_sent
          /\ arq_sent' = arq_sent]_vars

C1_Witness ==
    /\ out.called
    /\ Len(Config.ar_ignore) = 2
    /\ Config.ar_ignore[2] = lf.srcip
    /\ Config.local_ar
    /\ Config.remote_ar
    /\ out.disp = "Suppressed"

(* ---------------- C2 ---------------- *)

\* C2: one call makes at most one send in all (never one on each queue, never
\* two on the same queue, a failed send included), so the sends on both queues
\* together never outnumber the calls.
C2_AtMostOneWrite ==
    /\ [](execq_sent + arq_sent <= calls)
    /\ [][CallStep =>
            /\ Len(out'.sent) <= 1
            /\ (execq_sent' - execq_sent) + (arq_sent' - arq_sent) = Len(out'.sent)]_vars

C2_Witness ==
    /\ calls >= 2
    /\ execq_sent + arq_sent = calls
    /\ out.called
    /\ ~out.ok
    /\ Len(out.sent) = 1

(* ---------------- C3 ---------------- *)

\* C3: for an event the ignore list does not suppress, the local branch is taken
\* exactly when the rule is AS_ONLY, or REMOTE_AGENT with no '>' in the event's
\* location; REMOTE_AGENT with a '>' takes the forward branch; a send of the
\* local branch goes to execq and a send of the forward branch to arq.
C3_Locality ==
    (out.called /\ ~InIgnoreList(Config, lf.srcip)) =>
        /\ out.path \in {"local", "forward"}
        /\ (out.path = "local") <=> LocalExecution(ar, lf)
        /\ (ar.location = AS_ONLY) => out.path = "local"
        /\ (ar.location = REMOTE_AGENT /\ HasChar(lf.location, ">")) => out.path = "forward"
        /\ \A i \in 1..Len(out.sent) :
              out.sent[i].q = (IF out.path = "local" THEN "execq" ELSE "arq")

C3_Witness ==
    /\ out.called
    /\ ~InIgnoreList(Config, lf.srcip)
    /\ ar.location = REMOTE_AGENT
    /\ ~HasChar(lf.location, ">")
    /\ Len(out.sent) = 1
    /\ out.sent[1].q = "execq"

(* ---------------- C4 ---------------- *)

\* C4: when the flag of the classified path is off, the call ends Suppressed and
\* sends nothing on either queue, whatever the other path's flag is.
C4_DisabledPathIsSilent ==
    [][(CallStep /\ ~PathEnabled(Config, ar, lf)) =>
          /\ out'.disp = "Suppressed"
          /\ out'.sent = <<>>
          /\ execq_sent' = execq_sent
          /\ arq_sent' = arq_sent]_vars

C4_Witness ==
    /\ out.called
    /\ ~InIgnoreList(Config, lf.srcip)
    /\ LocalExecution(ar, lf)
    /\ ~Config.local_ar
    /\ Config.remote_ar
    /\ out.disp = "Suppressed"
    /\ out.sent = <<>>

(* ---------------- C5 ---------------- *)

\* C5 (as claimed): for a srcip of the form address ':' port the ip of the call
\* is the address part, and for a srcip without a colon it is the whole string.
C5_PortStripped ==
    out.called =>
        /\ ~HasChar(lf.srcip, ":") => out.ip = lf.srcip
        /\ \A k \in 2..(Len(lf.srcip) - 1) :
              (/\ lf.srcip[k] = ":"
               /\ \A j \in 1..Len(lf.srcip) : (j # k => lf.srcip[j] # ":"))
              => out.ip = SubSeq(lf.srcip, 1, k - 1)

\* C5 (amended): the ip of the call is the text after the last colon of srcip
\* (the port part of address ':' port), the whole srcip when it has no colon;
\* a message that was not cut ends with a space followed by that ip.
C5_AfterLastColon ==
    out.called =>
        /\ ~HasChar(lf.srcip, ":") => out.ip = lf.srcip
        /\ HasChar(lf.srcip, ":") => out.ip = AfterLastColon(lf.srcip)
        /\ \A i \in 1..Len(out.sent) :
              Len(FullMsg(out.sent[i].q, ar, lf, out.ip)) < OS_MAXSTR
              => EndsWith(out.sent[i].msg, <<" ">> \o out.ip)

C5_Witness ==
    /\ out.called
    /\ lf.srcip = <<"1", ":", "4">>
    /\ out.ip = <<"4">>
    /\ Len(out.sent) = 1
    /\ EndsWith(out.sent[1].msg, <<" ", "4">>)

(* ---------------- C6 ---------------- *)

\* C6 (as claimed): every message sent is the field list of its path joined by
\* single spaces, nothing omitted: name user ip on execq, location locality-char
\* agent_id name user ip on arq.
C6_Joined ==
    out.called =>
        \A i \in 1..Len(out.sent) :
            out.sent[i].msg = FullMsg(out.sent[i].q, ar, lf, out.ip)

\* C6 (amended): every message sent is that joined field list when the joined
\* string is shorter than OS_MAXSTR, and its first OS_MAXSTR-1 characters
\* otherwise.
C6_JoinedUpToMax ==
    out.called =>
        \A i \in 1..Len(out.sent) :
            LET full == FullMsg(out.sent[i].q, ar, lf, out.ip)
            IN  out.sent[i].msg =
                    IF Len(full) < OS_MAXSTR THEN full
                    ELSE SubSeq(full, 1, OS_MAXSTR - 1)

C6_Witness ==
    /\ out.called
    /\ Len(out.sent) = 1
    /\ out.sent[1].q = "arq"
    /\ lf.user = <<>>
    /\ ar.location = REMOTE_AGENT
    /\ out.sent[1].msg = <<"a", ">", "b", " ", "R", " ", "7", " ", "n", " ", " ", "1">>

(* ---------------- C7 ---------------- *)

\* C7: a call whose send fails reports the failure of the queue of its path,
\* with one log line, one send and none on the other queue, and the process
\* stays alive; a call made after a failure ends as its inputs alone decide.
C7_FailureIsReportedOnce ==
    /\ [](alive)
    /\ []((out.called /\ out.sent # <<>> /\ ~out.ok) =>
            /\ Len(out.sent) = 1
            /\ out.sent[1].q = (IF out.path = "local" THEN "execq" ELSE "arq")
            /\ out.disp = (IF out.path = "local" THEN "LocalQueueFailure"
                           ELSE "ForwardQueueFailure"))
    /\ [][CallStep =>
            /\ errs' - errs = (IF out'.sent # <<>> /\ ~out'.ok THEN 1 ELSE 0)
            /\ (out'.sent # <<>> /\ ~out'.ok) =>
                  (execq_sent' - execq_sent) + (arq_sent' - arq_sent) = 1
            /\ (errs > 0) => out'.disp = ExpectedDisp(Config, lf, ar, out'.ok)]_vars

C7_Witness ==
    /\ errs >= 1
    /\ calls >= 2
    /\ alive
    /\ out.called
    /\ out.ok
    /\ out.disp = "SentLocal"

(* ---------------- C8 ---------------- *)

\* C8: every message sent is at most OS_MAXSTR long, fits the buffer of
\* OS_MAXSTR+1 bytes with its NUL, and is a prefix of the full formatted
\* message; a message too long for the maximum is cut and still sent, and the
\* call ends SentLocal / SentForward when the send succeeds.
C8_Truncation ==
    out.called =>
        /\ \A i \in 1..Len(out.sent) :
              /\ Len(out.sent[i].msg) <= OS_MAXSTR
              /\ Len(out.sent[i].msg) + 1 <= OS_MAXSTR + 1
              /\ IsPrefix(out.sent[i].msg, FullMsg(out.sent[i].q, ar, lf, out.ip))
        /\ (/\ ~InIgnoreList(Config, lf.srcip)
            /\ PathEnabled(Config, ar, lf)
            /\ Len(FullMsg(IF LocalExecution(ar, lf) THEN "execq" ELSE "arq",
                           ar, lf, out.ip)) > OS_MAXSTR)
           => /\ Len(out.sent) = 1
              /\ Len(out.sent[1].msg) < Len(FullMsg(out.sent[1].q, ar, lf, out.ip))
              /\ out.ok => out.disp \in {"SentLocal", "SentForward"}

C8_Witness ==
    /\ out.called
    /\ out.ok
    /\ Len(out.sent) = 1
    /\ out.sent[1].q = "execq"
    /\ Len(FullLocal(ar, lf, out.ip)) > OS_MAXSTR
    /\ Len(out.sent[1].msg) < Len(FullLocal(ar, lf, out.ip))
    /\ out.disp = "SentLocal"

(* ---------------- C9 ---------------- *)

\* C9: a call changes neither the event, the rule nor the config (the config
\* never changes at all), and a call repeated on the same event and rule with
\* the same send outcome ends with the same disposition, the same queue and the
\* same message as the call before it.
C9_Stateless ==
    [][/\ Config' = Config
       /\ CallStep => (lf' = lf /\ ar' = ar)
       /\ (CallStep /\ out.called /\ out'.ok = out.ok) =>
             /\ out'.disp = out.disp
             /\ out'.sent = out.sent
             /\ out'.path = out.path
             /\ out'.ip = out.ip]_vars

C9_Witness ==
    /\ out.called
    /\ out.again
    /\ Len(out.sent) = 1
    /\ out.disp = "SentForward"
    /\ ~Config.ar_ignore_null
    /\ Len(Config.ar_ignore) = 2

(* ---------------- C10 ---------------- *)

====
